---------------------------- MODULE Spec2Model ----------------------------
(***************************************************************************)
(* A model of auto-brand-logos/fetch_logos.py: the batch driver (main),    *)
(* the per-brand pipeline (process_brand) and the functions it calls.      *)
(*                                                                         *)
(* The program is sequential.  Everything it does not control (the answers *)
(* of the Wikidata and Commons services, the bytes they deliver, whether a *)
(* file can be written) is an input.  A function that talks to the outside *)
(* is therefore modelled as the SET OF ITS POSSIBLE RUNS: one record per   *)
(* combination of answers it can get, holding what it returns (or that it  *)
(* raised) and the calls it made, in order.  A request is answered anew    *)
(* every time it is made: two requests for the same entity are independent *)
(* inputs.                                                                 *)
(*                                                                         *)
(* Text is a sequence of one-character strings, so that strip, startswith  *)
(* and the regular-expression substitution act on characters.              *)
(***************************************************************************)
EXTENDS Integers, Sequences, FiniteSets, TLC

VARIABLES
    brands,      \* main: the list read_brands returned
    idx,         \* main: position of the for loop (next brand to process)
    ok,          \* main: ok counter
    fail,        \* main: fail counter
    out,         \* the status lines printed so far, in order
    files,       \* OUTPUT_DIR: file name -> brand whose image the file holds
    run,         \* the run of process_brand for the brand processed last
    exitStatus,  \* what main returned (-1 while it runs)
    pc,          \* position of the program: loop, returned, done, crashed
    img,         \* to_png_128 on its own: the bytes handed to it
    res          \* to_png_128 on its own: what it did with them

vars == <<brands, idx, ok, fail, out, files, run, exitStatus, pc, img, res>>

---------------------------------------------------------------------------
(* Bounds of the model *)

\* number of lines of brands_tr.txt
MaxLines == 2
\* number of candidates a label search returns
MaxCands == 2
\* largest width and height of an image handed to to_png_128 on its own
MaxDim == 230

---------------------------------------------------------------------------
(* Text *)

Whitespace == {" ", "\t"}

RECURSIVE lstrip(_)
lstrip(s) ==
    IF s = <<>> THEN <<>>
    ELSE IF Head(s) \in Whitespace THEN lstrip(Tail(s)) ELSE s

RECURSIVE rstrip(_)
rstrip(s) ==
    IF s = <<>> THEN <<>>
    ELSE IF s[Len(s)] \in Whitespace THEN rstrip(SubSeq(s, 1, Len(s) - 1)) ELSE s

\* str.strip()
strip(s) == rstrip(lstrip(s))

\* SAFE_FILENAME_PATTERN: the character class [\\/:*?"<>|]
SAFE_FILENAME_PATTERN == {"\\", "/", ":", "*", "?", "\"", "<", ">", "|"}

\* SAFE_FILENAME_PATTERN.sub("_", name).strip()
sanitize_filename(name) ==
    strip([i \in 1..Len(name) |->
              IF name[i] \in SAFE_FILENAME_PATTERN THEN "_" ELSE name[i]])

\* [line.strip() for line in f if line.strip() and not line.strip().startswith("#")]
RECURSIVE read_brands(_)
read_brands(lines) ==
    IF lines = <<>> THEN <<>>
    ELSE LET s == strip(Head(lines))
         IN  IF s # <<>> /\ s[1] # "#"
             THEN <<s>> \o read_brands(Tail(lines))
             ELSE read_brands(Tail(lines))

\* The lines a brands file is made of in this model: an empty line, a blank
\* line, two comments, a plain name (also with surrounding blanks) and a
\* name that differs from it only in a character the pattern replaces.
SampleLines ==
    { <<>>,
      <<" ">>,
      <<"#", "a">>,
      <<" ", "#">>,
      <<"a", "_", "b">>,
      <<" ", "a", "_", "b", " ">>,
      <<"a", "/", "b">> }

RECURSIVE SeqsUpTo(_, _)
SeqsUpTo(S, n) ==
    IF n = 0 THEN {<<>>}
    ELSE LET shorter == SeqsUpTo(S, n - 1)
         IN  shorter \cup {Append(s, x) : s \in {t \in shorter : Len(t) = n - 1}, x \in S}

BrandFiles == SeqsUpTo(SampleLines, MaxLines)

---------------------------------------------------------------------------
(* Images and the normalizer *)

\* Optional[bytes]: None, b"", bytes that are no image, or an image w x h
NoneBytes == [kind |-> "None", w |-> 0, h |-> 0]
EmptyBytes == [kind |-> "empty", w |-> 0, h |-> 0]
Garbage == [kind |-> "garbage", w |-> 0, h |-> 0]
Raster(w, h) == [kind |-> "image", w |-> w, h |-> h]

\* `not img_bytes`
Falsy(b) == b.kind \in {"None", "empty"}

\* Python's round(a / b * m) for positive integers: the exact quotient
\* rounded half to even, except where the double-precision product misses an
\* exact tie (a/b = 29/224 comes out as 14.500000000000002 and 115/224 as
\* 57.49999999999999 when m = 112; every other tie is exact in doubles).
round(a, b, m) ==
    LET n == a * m
        q == n \div b
        r == n % b
    IN  IF 2 * r < b THEN q
        ELSE IF 2 * r > b THEN q + 1
        ELSE IF m = 112 /\ a * 224 = 29 * b THEN q + 1
        ELSE IF m = 112 /\ a * 224 = 115 * b THEN q
        ELSE IF q % 2 = 0 THEN q ELSE q + 1

\* contain as Image.thumbnail would do it: an image that fits is left alone
contain_thumbnail(w, h, size) ==
    IF w <= size[1] /\ h <= size[2] THEN <<w, h>>
    ELSE IF w * size[2] = h * size[1] THEN size
    ELSE IF w * size[2] > h * size[1]
         THEN <<size[1], round(h, w, size[1])>>
         ELSE <<round(w, h, size[2]), size[2]>>

\* ImageOps.contain(image, size): the size it asks Image.resize for
contain(w, h, size) ==
    IF w * size[2] = h * size[1] THEN size
    ELSE IF w * size[2] > h * size[1]
         THEN <<size[1], round(h, w, size[1])>>
         ELSE <<round(w, h, size[2]), size[2]>>

\* Image.resize(size): ValueError "height and width must be > 0"
resize_raises(size) == size[1] < 1 \/ size[2] < 1

NoCanvas == [kind |-> "None", w |-> 0, h |-> 0, cw |-> 0, ch |-> 0, ox |-> 0, oy |-> 0]

canvas_size == <<128, 128>>
padding == 8

\* to_png_128(img_bytes): [raised, exc, val]; val is NoCanvas (None) or the
\* canvas w x h with the content cw x ch pasted at (ox, oy)
to_png_128(img_bytes) ==
    IF img_bytes.kind # "image"
    THEN [raised |-> FALSE, exc |-> "", val |-> NoCanvas]
    ELSE LET max_w == canvas_size[1] - 2 * padding
             max_h == canvas_size[2] - 2 * padding
             size == contain(img_bytes.w, img_bytes.h, <<max_w, max_h>>)
         IN  IF resize_raises(size)
             THEN [raised |-> TRUE, exc |-> "height and width must be > 0",
                   val |-> NoCanvas]
             ELSE [raised |-> FALSE, exc |-> "",
                   val |-> [kind |-> "canvas",
                            w |-> canvas_size[1], h |-> canvas_size[2],
                            cw |-> size[1], ch |-> size[2],
                            ox |-> (canvas_size[1] - size[1]) \div 2,
                            oy |-> (canvas_size[2] - size[2]) \div 2]]

---------------------------------------------------------------------------
(* The services *)

\* identifiers the label search can return (entries without an id are
\* filtered out by wikidata_search_candidates)
QIDs == {"Q1", "Q2"}

\* the value of the P154 claim of an entity
LogoOf(qid) ==
    CASE qid = "Q1" -> "Logo_Q1.svg"
      [] qid = "Q2" -> "Logo_Q2.svg"
      [] OTHER -> "Logo.svg"

\* answers to a wbgetclaims request: an HTTP error (or timeout), claims
\* without P154, a P154 claim without mainsnak/datavalue/value, a P154 claim
\* with a file name
ClaimsAnswers == {"http_error", "no_p154", "malformed", "ok"}

\* answers to a wbsearchentities request: an HTTP error or a list of ids
SearchAnswers ==
    {[raised |-> TRUE, ids |-> <<>>]}
        \cup {[raised |-> FALSE, ids |-> c] : c \in SeqsUpTo(QIDs, MaxCands)}

\* bodies a Commons endpoint delivers with a success status
Bodies == {EmptyBytes, Garbage, Raster(64, 32), Raster(300, 1)}

\* answers to a GET on a Commons endpoint
DownloadAnswers ==
    {[raised |-> TRUE, content |-> NoneBytes]}
        \cup {[raised |-> FALSE, content |-> b] : b \in Bodies}

\* whether img.save can write the file
SaveAnswers == {"ok", "oserror"}

\* an entry of the list of calls a run made
Call(op, arg, ret, ids) ==
    [op |-> op, arg |-> arg, ret |-> ret, ids |-> ids, content |-> NoneBytes]

---------------------------------------------------------------------------
(* wikidata_get_logo_filename, wikidata_search_candidates *)

\* wikidata_get_logo_filename(qid) on one answer: [raised, val], val "None"
\* or the file name
get_logo_filename_on(qid, answer) ==
    IF answer = "http_error" THEN [raised |-> TRUE, val |-> "None"]
    ELSE IF answer = "no_p154" THEN [raised |-> FALSE, val |-> "None"]
    ELSE IF answer = "malformed" THEN [raised |-> FALSE, val |-> "None"]
    ELSE [raised |-> FALSE, val |-> LogoOf(qid)]

\* the runs of wikidata_get_logo_filename(qid): [raised, val, calls]
wikidata_get_logo_filename(qid) ==
    { LET r == get_logo_filename_on(qid, a)
      IN  [raised |-> r.raised, val |-> r.val,
           calls |-> <<Call("claims", qid, IF r.raised THEN "raise" ELSE r.val, <<>>)>>]
      : a \in ClaimsAnswers }

\* the runs of wikidata_search_candidates(name, language): [raised, ids, calls]
wikidata_search_candidates(name, language) ==
    { [raised |-> a.raised, ids |-> a.ids,
       calls |-> <<Call("search", language, IF a.raised THEN "raise" ELSE "ok", a.ids)>>]
      : a \in SearchAnswers }

---------------------------------------------------------------------------
(* wikidata_search_entity *)

\* for lang in ("tr", "en")
Languages == <<"tr", "en">>

\* `for qid in candidates: if wikidata_get_logo_filename(qid): return qid`,
\* from position i on: [status, qid, calls] with status "found" (returned
\* qid), "raised" (a request raised) or "exhausted" (the loop ended)
RECURSIVE FirstWithLogo(_, _)
FirstWithLogo(candidates, i) ==
    IF i > Len(candidates)
    THEN {[status |-> "exhausted", qid |-> "None", calls |-> <<>>]}
    ELSE UNION {
           IF g.raised
           THEN {[status |-> "raised", qid |-> "None", calls |-> g.calls]}
           ELSE IF g.val # "None"
           THEN {[status |-> "found", qid |-> candidates[i], calls |-> g.calls]}
           ELSE {[status |-> s.status, qid |-> s.qid, calls |-> g.calls \o s.calls]
                 : s \in FirstWithLogo(candidates, i + 1)}
           : g \in wikidata_get_logo_filename(candidates[i]) }

\* the fallback taking the last candidate instead of the first
Fallback_last(candidates) == candidates[Len(candidates)]

\* `if candidates: return candidates[0]`
Fallback(candidates) == candidates[1]

\* the body of wikidata_search_entity from the k-th language on:
\* [raised, qid, byScan, calls]; qid is "None" when nothing was found and
\* byScan tells that qid was returned by the first pass, not by the fallback
RECURSIVE SearchFrom(_, _)
SearchFrom(name, k) ==
    IF k > Len(Languages)
    THEN {[raised |-> FALSE, qid |-> "None", byScan |-> FALSE, calls |-> <<>>]}
    ELSE UNION {
           IF c.raised
           THEN {[raised |-> TRUE, qid |-> "None", byScan |-> FALSE, calls |-> c.calls]}
           ELSE UNION {
                  IF s.status = "raised"
                  THEN {[raised |-> TRUE, qid |-> "None", byScan |-> FALSE,
                         calls |-> c.calls \o s.calls]}
                  ELSE IF s.status = "found"
                  THEN {[raised |-> FALSE, qid |-> s.qid, byScan |-> TRUE,
                         calls |-> c.calls \o s.calls]}
                  ELSE IF c.ids # <<>>
                  THEN {[raised |-> FALSE, qid |-> Fallback(c.ids), byScan |-> FALSE,
                         calls |-> c.calls \o s.calls]}
                  ELSE {[raised |-> n.raised, qid |-> n.qid, byScan |-> n.byScan,
                         calls |-> c.calls \o s.calls \o n.calls]
                        : n \in SearchFrom(name, k + 1)}
                  : s \in FirstWithLogo(c.ids, 1) }
           : c \in wikidata_search_candidates(name, Languages[k]) }

\* the runs of wikidata_search_entity(name)
wikidata_search_entity(name) == SearchFrom(name, 1)

---------------------------------------------------------------------------
(* download_commons_raster *)

\* one `try: r = SESSION.get(url); r.raise_for_status(); return r.content`
Get(endpoint, filename) ==
    { [raised |-> a.raised, content |-> a.content,
       calls |-> <<[Call(endpoint, filename, IF a.raised THEN "raise" ELSE "ok", <<>>)
                       EXCEPT !.content = a.content]>>]
      : a \in DownloadAnswers }

\* no second endpoint
TryFilePath_never(t) == FALSE

\* whether the file-path endpoint is tried after the thumbnail request t
TryFilePath(t) == t.raised

\* the runs of download_commons_raster(filename): [val, calls]
download_commons_raster(filename) ==
    UNION {
      IF TryFilePath(t)
      THEN {[val |-> IF f.raised THEN NoneBytes ELSE f.content,
             calls |-> t.calls \o f.calls]
            : f \in Get("filepath", filename)}
      ELSE {[val |-> t.content, calls |-> t.calls]}
      : t \in Get("thumb", filename) }

---------------------------------------------------------------------------
(* process_brand *)

\* a run of process_brand: what it returns (brand, success, msg) or that it
\* raised exc, the calls it made (rcalls: those of wikidata_search_entity),
\* the stages it invoked (with their success) and the values it held
NoRun ==
    [brand |-> <<>>, raised |-> FALSE, exc |-> "", returned |-> FALSE,
     success |-> FALSE, msg |-> [text |-> "", arg |-> ""],
     calls |-> <<>>, rcalls |-> <<>>, stages |-> <<>>,
     qid |-> "None", byScan |-> FALSE, filename |-> "None",
     img_bytes |-> NoneBytes, canvas |-> NoCanvas, wrote |-> <<>>]

Stage(name, succeeded) == [name |-> name, ok |-> succeeded]

\* `return brand, success, msg`
Return(r, success, text, arg) ==
    [r EXCEPT !.returned = TRUE, !.success = success,
              !.msg = [text |-> text, arg |-> arg]]

\* an exception leaves the body of the try statement
Raise(r, exc) == [r EXCEPT !.raised = TRUE, !.exc = exc]

\* the `if not qid` check left out
NotFound_unchecked(qid) == FALSE

\* `if not qid`
NotFound(qid) == qid = "None"

\* the `if not filename` check left out
NoLogo_unchecked(filename) == FALSE

\* `if not filename`
NoLogo(filename) == filename = "None"

\* `if not img_bytes`
NoBytes(img_bytes) == Falsy(img_bytes)

\* the attribute fetched for the first candidate of the first search instead
\* of the identifier wikidata_search_entity returned
FetchFor_first(r) ==
    IF r.rcalls[1].ids # <<>> THEN r.rcalls[1].ids[1] ELSE r.qid

\* the identifier the attribute is fetched for: wikidata_get_logo_filename(qid)
FetchFor(r) == r.qid

\* out_name = sanitize_filename(brand) + ".png"
out_name(brand) == sanitize_filename(brand) \o <<".png">>

\* lines 130-133: img.save(out_path, format="PNG"); return brand, True, "OK"
Write(r) ==
    { IF a = "oserror"
      THEN Raise([r EXCEPT !.calls = Append(@, Call("save", "", "raise", <<>>)),
                           !.stages = Append(@, Stage("write", FALSE))],
                 "OSError")
      ELSE Return([r EXCEPT !.calls = Append(@, Call("save", "", "ok", <<>>)),
                            !.stages = Append(@, Stage("write", TRUE)),
                            !.wrote = out_name(r.brand)],
                  TRUE, "OK", "")
      : a \in SaveAnswers }

\* lines 127-129: img = to_png_128(img_bytes); if img is None: return ...
Normalize(r) ==
    LET n == to_png_128(r.img_bytes)
        c == Call("to_png_128", "",
                  IF n.raised THEN "raise"
                  ELSE IF n.val.kind = "None" THEN "None" ELSE "canvas", <<>>)
        r1 == [r EXCEPT !.calls = Append(@, c), !.canvas = n.val,
                        !.stages = Append(@, Stage("normalize",
                                           ~n.raised /\ n.val.kind # "None"))]
    IN  IF n.raised THEN {Raise(r1, n.exc)}
        ELSE IF n.val.kind = "None" THEN {Return(r1, FALSE, "Conversion failed", "")}
        ELSE Write(r1)

\* lines 124-126: img_bytes = download_commons_raster(filename); if not img_bytes: ...
Download(r) ==
    UNION {
      LET r1 == [r EXCEPT !.calls = @ \o d.calls, !.img_bytes = d.val,
                          !.stages = Append(@, Stage("download", ~NoBytes(d.val)))]
      IN  IF NoBytes(d.val) THEN {Return(r1, FALSE, "Download failed", "")}
          ELSE Normalize(r1)
      : d \in download_commons_raster(r.filename) }

\* lines 121-123: filename = wikidata_get_logo_filename(qid); if not filename: ...
Fetch(r) ==
    UNION {
      LET r1 == [r EXCEPT !.calls = @ \o g.calls, !.filename = g.val,
                          !.stages = Append(@, Stage("fetch",
                                             ~g.raised /\ ~NoLogo(g.val)))]
      IN  IF g.raised THEN {Raise(r1, "HTTPError")}
          ELSE IF NoLogo(g.val) THEN {Return(r1, FALSE, "No logo (P154) for", r.qid)}
          ELSE Download(r1)
      : g \in wikidata_get_logo_filename(FetchFor(r)) }

\* lines 118-120: qid = wikidata_search_entity(brand); if not qid: ...
Resolve(r) ==
    UNION {
      LET r1 == [r EXCEPT !.calls = @ \o e.calls, !.rcalls = e.calls, !.qid = e.qid,
                          !.byScan = e.byScan,
                          !.stages = Append(@, Stage("resolve",
                                             ~e.raised /\ ~NotFound(e.qid)))]
      IN  IF e.raised THEN {Raise(r1, "HTTPError")}
          ELSE IF NotFound(e.qid) THEN {Return(r1, FALSE, "No Wikidata item found", "")}
          ELSE Fetch(r1)
      : e \in wikidata_search_entity(r.brand) }

\* process_brand without the except clause
TryExcept_reraise(r) == r

\* `except Exception as e: return brand, False, f"Error: {e}"`
TryExcept(r) ==
    IF r.raised
    THEN Return([r EXCEPT !.raised = FALSE], FALSE, "Error:", r.exc)
    ELSE r

\* the runs of process_brand(brand)
process_brand(brand) ==
    {TryExcept(r) : r \in Resolve([NoRun EXCEPT !.brand = brand])}

---------------------------------------------------------------------------
(* main *)

\* the exit code with >= for >
ExitCode_nonneg(n) == IF n >= 0 THEN 0 ELSE 1

\* `return 0 if ok > 0 else 1`
ExitCode(n) == IF n > 0 THEN 0 ELSE 1

\* the file img.save leaves in OUTPUT_DIR: a file of that name is replaced
Saved(dir, name, brand) ==
    {f \in dir : f.name # name} \cup {[name |-> name, brand |-> brand]}

Init ==
    /\ brands \in {read_brands(f) : f \in BrandFiles}
    /\ idx = 1
    /\ ok = 0
    /\ fail = 0
    /\ out = <<>>
    /\ files = {}
    /\ run = NoRun
    /\ exitStatus = -1
    /\ pc = "loop"
    /\ img = NoneBytes
    /\ res = [raised |-> FALSE, exc |-> "", val |-> NoCanvas]

\* `b, success, msg = process_brand(brand)`: one run of process_brand for the
\* next brand, with the file it wrote.  An exception process_brand lets
\* through ends main with a traceback.
ProcessBrand ==
    /\ pc = "loop"
    /\ idx <= Len(brands)
    /\ \E r \in process_brand(brands[idx]) :
          /\ run' = r
          /\ files' = IF r.wrote # <<>> THEN Saved(files, r.wrote, r.brand) ELSE files
          /\ pc' = IF r.raised THEN "crashed" ELSE "returned"
          /\ exitStatus' = IF r.raised THEN 1 ELSE exitStatus
    /\ UNCHANGED <<brands, idx, ok, fail, out, img, res>>

\* the rest of the loop body: the status line and the counters; the frame of
\* process_brand is gone
Report ==
    /\ pc = "returned"
    /\ out' = Append(out, [status |-> IF run.success THEN "SUCCESS" ELSE "FAIL",
                           brand |-> run.brand, msg |-> run.msg])
    /\ ok' = IF run.success THEN ok + 1 ELSE ok
    /\ fail' = IF run.success THEN fail ELSE fail + 1
    /\ idx' = idx + 1
    /\ run' = NoRun
    /\ pc' = "loop"
    /\ UNCHANGED <<brands, files, exitStatus, img, res>>

\* the loop is over: the summary line and the return value
Finish ==
    /\ pc = "loop"
    /\ idx > Len(brands)
    /\ pc' = "done"
    /\ exitStatus' = ExitCode(ok)
    /\ UNCHANGED <<brands, idx, ok, fail, out, files, run, img, res>>

Next == ProcessBrand \/ Report \/ Finish

Spec == Init /\ [][Next]_vars

---------------------------------------------------------------------------
(* to_png_128 on its own: every image up to MaxDim x MaxDim *)

InitImg ==
    /\ img \in {Garbage} \cup {Raster(w, h) : w \in 1..MaxDim, h \in 1..MaxDim}
    /\ res = [raised |-> FALSE, exc |-> "", val |-> NoCanvas]
    /\ pc = "normalize"
    /\ brands = <<>>
    /\ idx = 1
    /\ ok = 0
    /\ fail = 0
    /\ out = <<>>
    /\ files = {}
    /\ run = NoRun
    /\ exitStatus = -1

ToPng ==
    /\ pc = "normalize"
    /\ res' = to_png_128(img)
    /\ pc' = "normalized"
    /\ UNCHANGED <<brands, idx, ok, fail, out, files, run, exitStatus, img>>

NextImg == ToPng

SpecImg == InitImg /\ [][NextImg]_vars

---------------------------------------------------------------------------
(* Properties *)

\* process_brand has returned and main has not yet used the result
Returned == pc = "returned"

StageOrder == <<"resolve", "fetch", "download", "normalize", "write">>

IsDownloadCall(c) == c.op \in {"thumb", "filepath"}

DownloadCalls == SelectSeq(run.calls, IsDownloadCall)

\* a request of wikidata_search_entity raised
ResolveRaised == \E i \in 1..Len(run.rcalls) : run.rcalls[i].ret = "raise"

\* C1: main processes every brand whatever the stages do: process_brand
\* returns a (brand, success, message) record for the brand it was given and
\* never lets an exception through, main prints one status line per processed
\* brand in input order, counts each brand as ok or fail, and at the end
\* ok + fail is the number of brands read.
C1_EveryBrandProcessed ==
    /\ pc # "crashed"
    /\ idx \in 1..(Len(brands) + 1)
    /\ Len(out) = idx - 1
    /\ ok + fail = Len(out)
    /\ \A i \in 1..Len(out) : out[i].brand = brands[i]
    /\ Returned => /\ run.returned
                   /\ ~run.raised
                   /\ run.brand = brands[idx]
                   /\ run.success \in BOOLEAN
    /\ pc = "done" => /\ Len(out) = Len(brands)
                      /\ ok + fail = Len(brands)

\* C1 witness: a finished run over two brands whose first brand ended in a
\* caught exception and whose second brand succeeded.
C1_Witness ==
    /\ pc = "done"
    /\ Len(brands) = 2
    /\ out[1].status = "FAIL"
    /\ out[1].msg.text = "Error:"
    /\ out[2].status = "SUCCESS"

\* C2: when main has returned, its exit status is 0 exactly if some brand was
\* reported SUCCESS, and 1 otherwise, the empty brand list included.
C2_ExitStatus ==
    pc = "done" =>
        /\ exitStatus \in {0, 1}
        /\ exitStatus = 0 <=> \E i \in 1..Len(out) : out[i].status = "SUCCESS"
        /\ Len(brands) = 0 => exitStatus = 1

\* C2 witness: main returned 0 after a run with a failed and a successful brand.
C2_Witness ==
    /\ pc = "done"
    /\ exitStatus = 0
    /\ ok > 0
    /\ fail > 0

\* C3: when the label search answers with zero candidates in "tr" and then
\* in "en", process_brand returns (brand, False, "No Wikidata item found"),
\* the two searches are its only calls (no attribute fetch, no download) and
\* it writes no file.
C3_NoCandidates ==
    ( /\ Returned
      /\ Len(run.calls) >= 2
      /\ run.calls[1] = Call("search", "tr", "ok", <<>>)
      /\ run.calls[2] = Call("search", "en", "ok", <<>>) )
    => /\ run.qid = "None"
       /\ ~run.success
       /\ run.msg = [text |-> "No Wikidata item found", arg |-> ""]
       /\ Len(run.calls) = 2
       /\ run.wrote = <<>>

\* C3 witness: a brand that ended with "No Wikidata item found" after two
\* searches without candidates.
C3_Witness ==
    /\ Returned
    /\ run.msg.text = "No Wikidata item found"
    /\ run.calls = <<Call("search", "tr", "ok", <<>>), Call("search", "en", "ok", <<>>)>>

\* C4: process_brand invokes its stages in the order resolve, fetch,
\* download, normalize, write, each only after every earlier one succeeded;
\* the brand succeeds exactly if all five succeeded; and when the attribute
\* fetch returns no logo the brand fails with the no-logo message for the
\* resolved identifier, without any download request and without a file.
C4_StageOrder ==
    Returned =>
        /\ Len(run.stages) \in 1..Len(StageOrder)
        /\ \A i \in 1..Len(run.stages) : run.stages[i].name = StageOrder[i]
        /\ \A i \in 1..(Len(run.stages) - 1) : run.stages[i].ok
        /\ run.success <=> ( /\ Len(run.stages) = Len(StageOrder)
                             /\ run.stages[Len(StageOrder)].ok )
        /\ DownloadCalls # <<>> => Len(run.stages) >= 3
        /\ run.wrote # <<>> => run.success
        /\ ( /\ Len(run.stages) >= 2
             /\ run.calls[Len(run.rcalls) + 1].ret = "None" )
           => /\ ~run.success
              /\ run.msg = [text |-> "No logo (P154) for", arg |-> run.qid]
              /\ DownloadCalls = <<>>
              /\ Len(run.calls) = Len(run.rcalls) + 1
              /\ run.wrote = <<>>

\* C4 witness: a brand whose attribute fetch returned no logo and that ended
\* with the no-logo message.
C4_Witness ==
    /\ Returned
    /\ Len(run.stages) = 2
    /\ run.calls[Len(run.rcalls) + 1] = Call("claims", run.qid, "None", <<>>)
    /\ run.msg.text = "No logo (P154) for"

\* C5: at the end of a run every brand reported SUCCESS has its own file,
\* named sanitize_filename(brand) + ".png" and holding that brand's image: no
\* other brand of the run has overwritten it.
C5_OwnFilePerSuccess ==
    pc = "done" =>
        \A i \in 1..Len(out) :
            out[i].status = "SUCCESS"
                => [name |-> out_name(brands[i]), brand |-> brands[i]] \in files

\* the rule of wikidata_search_entity for one language with candidates: the
\* scan asks for the candidates in order, stops at the first with a logo and
\* returns it; if none has one, the first candidate is returned
LanguageRule(list, scan, qid, byScan) ==
    /\ Len(scan) \in 1..Len(list)
    /\ \A i \in 1..Len(scan) : scan[i].op = "claims" /\ scan[i].arg = list[i]
    /\ \A i \in 1..(Len(scan) - 1) : scan[i].ret = "None"
    /\ IF scan[Len(scan)].ret # "None"
       THEN qid = list[Len(scan)] /\ byScan
       ELSE Len(scan) = Len(list) /\ qid = list[1] /\ ~byScan

\* C8: whenever wikidata_search_entity returns, its result follows the
\* priority rule: "tr" is searched first; if it has candidates, "en" is never
\* searched and the result is the first "tr" candidate with a logo, or the
\* first "tr" candidate if none has one; "en" is searched only after "tr" gave
\* zero candidates, with the same rule; not-found only if both lists are empty.
C8_PriorityRule ==
    (Returned /\ ~ResolveRaised) =>
        LET rc == run.rcalls
        IN  /\ Len(rc) >= 1
            /\ rc[1].op = "search" /\ rc[1].arg = "tr"
            /\ IF rc[1].ids # <<>>
               THEN LanguageRule(rc[1].ids, SubSeq(rc, 2, Len(rc)), run.qid, run.byScan)
               ELSE /\ Len(rc) >= 2
                    /\ rc[2].op = "search" /\ rc[2].arg = "en"
                    /\ IF rc[2].ids # <<>>
                       THEN LanguageRule(rc[2].ids, SubSeq(rc, 3, Len(rc)),
                                         run.qid, run.byScan)
                       ELSE Len(rc) = 2 /\ run.qid = "None" /\ ~run.byScan

\* C8 witness: "tr" gave two different candidates, the first without a logo,
\* the second with one, and the second was returned.
C8_Witness ==
    /\ Returned
    /\ ~ResolveRaised
    /\ Len(run.rcalls[1].ids) = 2
    /\ run.rcalls[1].ids[1] # run.rcalls[1].ids[2]
    /\ run.qid = run.rcalls[1].ids[2]
    /\ run.byScan

\* C9 as claimed: whenever wikidata_search_entity returned a candidate its
\* scan found to have a logo, the attribute fetch of process_brand for that
\* identifier returns a logo filename.
C9_FetchSucceedsAfterScan ==
    (Returned /\ run.byScan) =>
        /\ Len(run.stages) >= 2
        /\ run.stages[2].ok
        /\ run.filename # "None"

\* C9 amended: whenever wikidata_search_entity returned a candidate its scan
\* found to have a logo, process_brand makes a second request of its own for
\* the same identifier; the brand goes on to the download exactly if that
\* request returns a logo filename too, ends with the no-logo message if it
\* returns none and with an "Error:" message if it raises.
C9_SecondRequestDecides ==
    (Returned /\ run.byScan) =>
        LET n == Len(run.rcalls)
            scanned == run.rcalls[n]
            fetched == run.calls[n + 1]
        IN  /\ scanned = Call("claims", run.qid, LogoOf(run.qid), <<>>)
            /\ Len(run.calls) > n
            /\ fetched.op = "claims" /\ fetched.arg = run.qid
            /\ (DownloadCalls # <<>>) <=> (fetched.ret = LogoOf(run.qid))
            /\ fetched.ret = "None"
                  => run.msg = [text |-> "No logo (P154) for", arg |-> run.qid]
            /\ fetched.ret = "raise"
                  => run.msg = [text |-> "Error:", arg |-> "HTTPError"]

\* C9 witness: the scan found a logo for the returned candidate and the
\* brand still ended with the no-logo message.
C9_Witness ==
    /\ Returned
    /\ run.byScan
    /\ run.msg.text = "No logo (P154) for"

\* C10: download_commons_raster requests the thumbnail endpoint first, and
\* the file-path endpoint for the same filename exactly if the thumbnail
\* request failed; one request per endpoint at most; it returns the content
\* of the first request that succeeded and None exactly if both failed.
C10_DownloadFallback ==
    (Returned /\ Len(run.stages) >= 3) =>
        LET d == DownloadCalls
        IN  /\ Len(d) \in {1, 2}
            /\ d[1].op = "thumb" /\ d[1].arg = run.filename
            /\ Len(d) = 2 <=> d[1].ret = "raise"
            /\ Len(d) = 2 => d[2].op = "filepath" /\ d[2].arg = run.filename
            /\ run.img_bytes = IF d[1].ret = "ok" THEN d[1].content
                               ELSE IF d[2].ret = "ok" THEN d[2].content
                               ELSE NoneBytes
            /\ run.img_bytes = NoneBytes <=> \A i \in 1..Len(d) : d[i].ret = "raise"

\* C10 witness: the thumbnail request failed and the file-path request
\* delivered the image that was returned.
C10_Witness ==
    /\ Returned
    /\ Len(DownloadCalls) = 2
    /\ DownloadCalls[1].ret = "raise"
    /\ DownloadCalls[2].ret = "ok"
    /\ run.img_bytes.kind = "image"
    /\ run.img_bytes = DownloadCalls[2].content

\* to_png_128 has been applied to a decodable image
Normalized == pc = "normalized" /\ img.kind = "image"

Max(a, b) == IF a >= b THEN a ELSE b

\* C6: for every decodable image of width >= 1 and height >= 1, to_png_128
\* returns a 128 x 128 canvas (it neither raises nor returns None) whose
\* content is at most 112 wide and high, pasted at ((128-w)//2, (128-h)//2),
\* at least 8 pixels away from every edge.
C6_AlwaysCanvas ==
    Normalized =>
        /\ ~res.raised
        /\ res.val.kind = "canvas"
        /\ res.val.w = 128 /\ res.val.h = 128
        /\ res.val.cw <= 112 /\ res.val.ch <= 112
        /\ res.val.ox = (128 - res.val.cw) \div 2
        /\ res.val.oy = (128 - res.val.ch) \div 2
        /\ res.val.ox >= 8 /\ res.val.ox + res.val.cw <= 120
        /\ res.val.oy >= 8 /\ res.val.oy + res.val.ch <= 120

\* C7 as claimed: for every decodable image at most 112 wide and high, the
\* content on the canvas has the width and height of the source.
C7_NeverScaledUp ==
    (Normalized /\ img.w <= 112 /\ img.h <= 112) =>
        /\ res.val.kind = "canvas"
        /\ res.val.cw = img.w
        /\ res.val.ch = img.h

\* C7 amended: the normalizer scales up as well as down: for every decodable
\* image at most 112 wide and high, to_png_128 returns a canvas whose
\* content has its larger dimension equal to 112, so the content has the
\* size of the source only if the larger dimension of the source is 112.
C7_ScaledToFit ==
    (Normalized /\ img.w <= 112 /\ img.h <= 112) =>
        /\ ~res.raised
        /\ res.val.kind = "canvas"
        /\ Max(res.val.cw, res.val.ch) = 112
        /\ (res.val.cw = img.w /\ res.val.ch = img.h) => Max(img.w, img.h) = 112

\* C7 witness: a 10 x 5 image ends as 112 x 56 content.
C7_Witness ==
    /\ Normalized
    /\ img = Raster(10, 5)
    /\ res.val.kind = "canvas"
    /\ res.val.cw = 112
    /\ res.val.ch = 56

===========================================================================
